---- MODULE Spec2Model ----
(***************************************************************************)
(* A model of the complex-number library: the Complex value type, its      *)
(* default string rendering, the normalizer of Complex.eval and the five   *)
(* mutually recursive parse functions, run as a stack machine.             *)
(*                                                                         *)
(* Numbers.  A double is modelled by a record r with r.k one of            *)
(*   "rat"  the exact rational r.n / r.d (r.d > 0, lowest terms),          *)
(*   "unk"  a double whose value is not tracked (an irrational result of   *)
(*          Math.*, or a value beyond TrackLimit / TrackedDigits),         *)
(*   "nan"  NaN.                                                           *)
(* Strings are sequences of one-character strings; a token of the parser   *)
(* is such a sequence (<<"1","2">> is the token "12").                     *)
(***************************************************************************)
EXTENDS Integers, Sequences, FiniteSets, TLC

\* ------------------------------------------------------------------ bounds
\* Largest numerator or denominator whose value is tracked exactly.
TrackLimit == 30000
\* Most digits of a numeric literal whose value is tracked exactly.
TrackedDigits == 4

\* ------------------------------------------------------------ real numbers
Abs(x) == IF x < 0 THEN -x ELSE x

RECURSIVE GCD(_, _)
GCD(a, b) == IF b = 0 THEN a ELSE GCD(b, a % b)

Unk == [k |-> "unk", n |-> 0, d |-> 1]

NaN == [k |-> "nan", n |-> 0, d |-> 1]

\* The double n/d, d # 0.
Rat(n, d) ==
    LET g == GCD(Abs(n), Abs(d))
        s == IF d < 0 THEN -1 ELSE 1
        nn == (s * n) \div g
        dd == (s * d) \div g
    IN IF Abs(nn) > TrackLimit \/ dd > TrackLimit
       THEN Unk
       ELSE [k |-> "rat", n |-> nn, d |-> dd]

Int2R(i) == Rat(i, 1)

Zero == Int2R(0)

One == Int2R(1)

IsNaN(x) == x.k = "nan"

IsRat(x) == x.k = "rat"

\* JavaScript truthiness of a number: 0 and NaN are falsy.
Truthy(x) == ~(x.k = "nan" \/ (x.k = "rat" /\ x.n = 0))

RAdd(x, y) ==
    IF IsNaN(x) \/ IsNaN(y) THEN NaN
    ELSE IF ~IsRat(x) \/ ~IsRat(y) THEN Unk
    ELSE Rat(x.n * y.d + y.n * x.d, x.d * y.d)

RNeg(x) == IF IsRat(x) THEN Rat(-x.n, x.d) ELSE x

RSub(x, y) == RAdd(x, RNeg(y))

RMul(x, y) ==
    IF IsNaN(x) \/ IsNaN(y) THEN NaN
    ELSE IF ~IsRat(x) \/ ~IsRat(y) THEN Unk
    ELSE Rat(x.n * y.n, x.d * y.d)

\* IEEE division: 0/0 is NaN, x/0 is an infinity (not tracked).
RDiv(x, y) ==
    IF IsNaN(x) \/ IsNaN(y) THEN NaN
    ELSE IF ~IsRat(x) \/ ~IsRat(y) THEN Unk
    ELSE IF y.n = 0 THEN (IF x.n = 0 THEN NaN ELSE Unk)
    ELSE Rat(x.n * y.d, x.d * y.n)

\* ------------------------------------------------------------- characters
Digits == <<"0", "1", "2", "3", "4", "5", "6", "7", "8", "9">>

DigitSet == {Digits[i] : i \in 1..10}

DigitChar(v) == Digits[v + 1]

DigitVal(c) == (CHOOSE i \in 1..10 : Digits[i] = c) - 1

IsDigits(s) == Len(s) > 0 /\ \A i \in 1..Len(s) : s[i] \in DigitSet

RECURSIVE IntDigits(_)
IntDigits(v) ==
    IF v < 10 THEN <<DigitChar(v)>>
    ELSE Append(IntDigits(v \div 10), DigitChar(v % 10))

\* k digits of the fraction rem/d by long division.
RECURSIVE FracDigits(_, _, _)
FracDigits(rem, d, k) ==
    IF k = 0 THEN <<>>
    ELSE <<DigitChar((rem * 10) \div d)>> \o FracDigits((rem * 10) % d, d, k - 1)

RECURSIVE FracRem(_, _, _)
FracRem(rem, d, k) == IF k = 0 THEN rem ELSE FracRem((rem * 10) % d, d, k - 1)

\* A decimal digit string plus one unit in its last place.
RECURSIVE IncDigits(_)
IncDigits(s) ==
    IF Len(s) = 0 THEN <<"1">>
    ELSE IF s[Len(s)] = "9"
         THEN Append(IncDigits(SubSeq(s, 1, Len(s) - 1)), "0")
         ELSE Append(SubSeq(s, 1, Len(s) - 1), DigitChar(DigitVal(s[Len(s)]) + 1))

RECURSIVE StripZeros(_)
StripZeros(s) ==
    IF Len(s) > 0 /\ s[Len(s)] = "0" THEN StripZeros(SubSeq(s, 1, Len(s) - 1)) ELSE s

\* Number.prototype.toFixed(12) of niceround
FractionDigits == 12

\* The text of an untracked double: a numeral whose digits are not modelled.
UnkText == <<"?">>

\* real.toFixed(fractionDigits): sign, integer part, ".", fraction digits,
\* rounded half away from zero.
toFixed(x, fractionDigits) ==
    IF ~IsRat(x) THEN UnkText
    ELSE
    LET a == Abs(x.n)
        ip == IntDigits(a \div x.d)
        fr == FracDigits(a % x.d, x.d, fractionDigits)
        up == 2 * FracRem(a % x.d, x.d, fractionDigits) >= x.d
        all == IF up THEN IncDigits(ip \o fr) ELSE ip \o fr
        cut == Len(all) - fractionDigits
    IN (IF x.n < 0 THEN <<"-">> ELSE <<>>)
       \o SubSeq(all, 1, cut) \o <<".">> \o SubSeq(all, cut + 1, Len(all))

\* fixed.replace(/\.?0+$/g, ""): the trailing zeros, and the point before them.
StripFixed(fixed) ==
    LET z == StripZeros(fixed)
    IN IF Len(z) < Len(fixed) /\ Len(z) > 0 /\ z[Len(z)] = "."
       THEN SubSeq(z, 1, Len(z) - 1)
       ELSE z

niceround(real) ==
    LET fixed == toFixed(real, FractionDigits)
    IN IF \E i \in 1..Len(fixed) : fixed[i] = "." THEN StripFixed(fixed) ELSE fixed

\* ------------------------------------------------------- Number(string)
RECURSIVE DigitsVal(_)
DigitsVal(s) ==
    IF Len(s) = 0 THEN 0
    ELSE 10 * DigitsVal(SubSeq(s, 1, Len(s) - 1)) + DigitVal(s[Len(s)])

RECURSIVE Pow10(_)
Pow10(k) == IF k = 0 THEN 1 ELSE 10 * Pow10(k - 1)

PointAt(s) == IF \E i \in 1..Len(s) : s[i] = "."
              THEN CHOOSE i \in 1..Len(s) : s[i] = "."
              ELSE 0

\* The unsigned decimal literals the normalizer and niceround produce:
\* digits, or digits "." digits.
IsUnsignedLiteral(s) ==
    LET p == PointAt(s)
    IN IF p = 0 THEN IsDigits(s)
       ELSE IsDigits(SubSeq(s, 1, p - 1)) /\ IsDigits(SubSeq(s, p + 1, Len(s)))

UnsignedVal(s) ==
    LET p == PointAt(s)
        ds == IF p = 0 THEN s ELSE SubSeq(s, 1, p - 1) \o SubSeq(s, p + 1, Len(s))
        fl == IF p = 0 THEN 0 ELSE Len(s) - p
    IN IF Len(ds) > TrackedDigits THEN Unk ELSE Rat(DigitsVal(ds), Pow10(fl))

\* Number(first): NaN unless the string is a numeric literal.
Number(s) ==
    IF s = UnkText THEN Unk
    ELSE IF Len(s) > 1 /\ s[1] \in {"+", "-"}
    THEN (IF IsUnsignedLiteral(Tail(s))
          THEN (IF s[1] = "-" THEN RNeg(UnsignedVal(Tail(s))) ELSE UnsignedVal(Tail(s)))
          ELSE NaN)
    ELSE IF IsUnsignedLiteral(s) THEN UnsignedVal(s) ELSE NaN

\* ----------------------------------------------------------- Math.*
\* Math functions are exact where the result is rational and untracked elsewhere.
RECURSIVE ISqrt(_, _)
ISqrt(v, r) == IF r * r >= v THEN r ELSE ISqrt(v, r + 1)

IsSquare(v) == ISqrt(v, 0) * ISqrt(v, 0) = v

\* x ** 0.5
MathSqrt(x) ==
    IF ~IsRat(x) THEN x
    ELSE IF x.n >= 0 /\ IsSquare(x.n) /\ IsSquare(x.d)
    THEN Rat(ISqrt(x.n, 0), ISqrt(x.d, 0))
    ELSE Unk

MathCos(x) == IF IsNaN(x) THEN NaN ELSE IF x = Zero THEN One ELSE Unk

MathSin(x) == IF IsNaN(x) THEN NaN ELSE IF x = Zero THEN Zero ELSE Unk

\* Math.E ** x
MathEPow(x) == IF IsNaN(x) THEN NaN ELSE IF x = Zero THEN One ELSE Unk

\* Math.log(x): NaN below zero, -Infinity at zero (untracked)
MathLog(x) ==
    IF IsNaN(x) \/ (IsRat(x) /\ x.n < 0) THEN NaN
    ELSE IF x = One THEN Zero ELSE Unk

MathAtan2(y, x) ==
    IF IsNaN(y) \/ IsNaN(x) THEN NaN
    ELSE IF y = Zero /\ IsRat(x) /\ x.n >= 0 THEN Zero ELSE Unk

\* Math.E and Math.PI have more digits than the model tracks.
MathE == Unk

\* ------------------------------------------------------------- Complex
\* A Complex object; err # "" stands for the exception thrown instead.
Cx(re, im) == [err |-> "", real |-> re, imag |-> im]

Thrown(kind) == [err |-> kind, real |-> NaN, imag |-> NaN]

Failed(c) == c.err # ""

\* The three kinds of argument of the constructor the model covers.
Undefined == [t |-> "undefined", v |-> Zero, c |-> Cx(Zero, Zero)]

NumArg(r) == [t |-> "number", v |-> r, c |-> Cx(Zero, Zero)]

ObjArg(c) == [t |-> "complex", v |-> Zero, c |-> c]

\* if (imag): an object is truthy, a number is unless it is 0 or NaN
ArgTruthy(a) == a.t = "complex" \/ (a.t = "number" /\ Truthy(a.v))

\* new Complex(real) with one argument, without the NaN check
Fields(a) ==
    IF a.t = "number" THEN Cx(a.v, Zero)
    ELSE IF a.t = "complex" THEN Cx(a.c.real, a.c.imag)
    ELSE Cx(Zero, Zero)

\* if (imag) { ... }: the second argument folded into the fields
\* The rule as the documentation words it: real part off real, imaginary part on imag.
AddImagSwapped(this, imag_part) ==
    IF Truthy(imag_part.imag) /\ ~Truthy(imag_part.real)
    THEN Cx(this.real, RAdd(this.imag, imag_part.imag))
    ELSE Cx(RSub(this.real, imag_part.real), RAdd(this.imag, imag_part.imag))

AddImag(this, imag_part) ==
    IF Truthy(imag_part.imag) /\ ~Truthy(imag_part.real)
    THEN Cx(this.real, RAdd(this.imag, imag_part.imag))
    ELSE Cx(RSub(this.real, imag_part.imag), RAdd(this.imag, imag_part.real))

\* new Complex(real, imag)
Complex(real, imag) ==
    LET base == Fields(real)
        this == IF ArgTruthy(imag) THEN AddImag(base, Fields(imag)) ELSE base
    IN IF IsNaN(this.real) \/ IsNaN(this.imag) THEN Thrown("InvalidNumber") ELSE this

\* n instanceof Complex ? n : new Complex(n), for a number n
FromReal(r) == Complex(NumArg(r), Undefined)

FirstFailed(numbers) ==
    numbers[CHOOSE i \in 1..Len(numbers) :
                Failed(numbers[i]) /\ \A j \in 1..(i - 1) : ~Failed(numbers[j])]

AnyFailed(numbers) == \E i \in 1..Len(numbers) : Failed(numbers[i])

RECURSIVE AddLoop(_, _)
AddLoop(newThis, numbers) ==
    IF numbers = <<>> THEN newThis
    ELSE AddLoop(Cx(RAdd(newThis.real, Head(numbers).real),
                    RAdd(newThis.imag, Head(numbers).imag)), Tail(numbers))

add(numbers) ==
    IF AnyFailed(numbers) THEN FirstFailed(numbers)
    ELSE AddLoop(Complex(Undefined, Undefined), numbers)

RECURSIVE SubLoop(_, _)
SubLoop(newThis, Rvalues) ==
    IF Rvalues = <<>> THEN newThis
    ELSE SubLoop(Cx(RSub(newThis.real, Head(Rvalues).real),
                    RSub(newThis.imag, Head(Rvalues).imag)), Tail(Rvalues))

sub(Lvalue, Rvalues) ==
    IF AnyFailed(<<Lvalue>> \o Rvalues) THEN FirstFailed(<<Lvalue>> \o Rvalues)
    ELSE SubLoop(Complex(ObjArg(Lvalue), Undefined), Rvalues)

RECURSIVE MulLoop(_, _, _)
MulLoop(real, imag, numbers) ==
    IF numbers = <<>> THEN Complex(NumArg(real), NumArg(imag))
    ELSE LET c == Head(numbers)
             rr == RMul(real, c.real)
             ri == RMul(real, c.imag)
             ir == RMul(imag, c.real)
             ii == RMul(imag, c.imag)
         IN MulLoop(RSub(rr, ii), RAdd(ri, ir), Tail(numbers))

mul(numbers) ==
    IF AnyFailed(numbers) THEN FirstFailed(numbers) ELSE MulLoop(One, Zero, numbers)

\* One turn of the loop of div without its isNaN test.
DivStepUnchecked(acc, cn) ==
    LET den == RAdd(RMul(cn.real, cn.real), RMul(cn.imag, cn.imag))
    IN Cx(RDiv(RAdd(RMul(acc.real, cn.real), RMul(acc.imag, cn.imag)), den),
          RDiv(RSub(RMul(acc.imag, cn.real), RMul(acc.real, cn.imag)), den))

\* One turn of the loop of div: the quotient, or the exception of line 140.
DivStep(acc, cn) ==
    LET a == acc.real
        b == acc.imag
        c == cn.real
        d == cn.imag
        den == RAdd(RMul(c, c), RMul(d, d))
        real == RDiv(RAdd(RMul(a, c), RMul(b, d)), den)
        imag == RDiv(RSub(RMul(b, c), RMul(a, d)), den)
    IN IF IsNaN(real) \/ IsNaN(imag) THEN Thrown("DivisionError") ELSE Cx(real, imag)

RECURSIVE DivLoop(_, _)
DivLoop(acc, Rvalues) ==
    IF Failed(acc) THEN acc
    ELSE IF Rvalues = <<>> THEN Complex(NumArg(acc.real), NumArg(acc.imag))
    ELSE DivLoop(DivStep(acc, Head(Rvalues)), Tail(Rvalues))

div(Lvalue, Rvalues) ==
    IF AnyFailed(<<Lvalue>> \o Rvalues) THEN FirstFailed(<<Lvalue>> \o Rvalues)
    ELSE DivLoop(Lvalue, Rvalues)

abs(c) == MathSqrt(RAdd(RMul(c.real, c.real), RMul(c.imag, c.imag)))

angle(c) ==
    LET a == IF Truthy(abs(c)) THEN abs(c) ELSE One
    IN MathAtan2(RDiv(c.imag, a), RDiv(c.real, a))

exp(terms) ==
    LET c == mul(terms)
    IN IF Failed(c) THEN c
       ELSE mul(<<Complex(NumArg(MathCos(c.imag)), NumArg(MathSin(c.imag))),
                  FromReal(MathEPow(c.real))>>)

log(terms) ==
    LET c == mul(terms)
    IN IF Failed(c) THEN c ELSE Complex(NumArg(MathLog(abs(c))), NumArg(angle(c)))

pow(root, exponent) == exp(<<mul(<<exponent, log(<<root>>)>>)>>)

\* Render without the "+" between the parts.
RenderMissingPlus(real, imag, nonneg) ==
    IF imag # <<"0", "j">> /\ imag # <<"-", "0", "j">>
    THEN (IF real # <<"0">> THEN real \o imag ELSE imag)
    ELSE real

\* The string built from the two rendered parts and the test this.imag >= 0.
Render(real, imag, nonneg) ==
    IF imag # <<"0", "j">> /\ imag # <<"-", "0", "j">>
    THEN (IF real # <<"0">>
          THEN (IF nonneg THEN real \o <<"+">> \o imag ELSE real \o imag)
          ELSE imag)
    ELSE real

toString(c) ==
    Render(niceround(c.real), niceround(c.imag) \o <<"j">>,
           IsRat(c.imag) /\ c.imag.n >= 0)

\* Every string toString can return: one when both parts are tracked; an
\* untracked part may be zero or not, and of either sign.
toStrings(c) ==
    LET reals == IF IsRat(c.real) THEN {niceround(c.real)} ELSE {UnkText, <<"0">>}
        imags == IF IsRat(c.imag) THEN {niceround(c.imag)} ELSE {UnkText, <<"0">>}
        signs == IF IsRat(c.imag) THEN {c.imag.n >= 0} ELSE {TRUE, FALSE}
    IN {Render(r, i \o <<"j">>, s) : r \in reals, i \in imags, s \in signs}

\* ------------------------------------------- the normalizer of Complex.eval
\* A string is a sequence of characters; between split("") and split("_") the
\* code holds the pieces joined by "_", modelled as the sequence of the pieces.
Whitespace == {" ", "\t", "\n"}

RECURSIVE TrimStart(_)
TrimStart(str) ==
    IF Len(str) > 0 /\ Head(str) \in Whitespace THEN TrimStart(Tail(str)) ELSE str

RECURSIVE TrimEnd(_)
TrimEnd(str) ==
    IF Len(str) > 0 /\ str[Len(str)] \in Whitespace
    THEN TrimEnd(SubSeq(str, 1, Len(str) - 1))
    ELSE str

trim(str) == TrimEnd(TrimStart(str))

toLowerCase(ch) ==
    CASE ch = "E" -> "e" [] ch = "I" -> "i" [] ch = "J" -> "j" [] ch = "P" -> "p"
      [] ch = "X" -> "x" [] ch = "L" -> "l" [] ch = "N" -> "n" [] ch = "O" -> "o"
      [] ch = "G" -> "g" [] OTHER -> ch

\* .split("").join("_").toLowerCase(): one piece per character
SplitJoin(str) == [i \in 1..Len(str) |-> <<toLowerCase(str[i])>>]

\* .replace(/ +/g, " "): a run of spaces inside one piece becomes one space
CollapseSpaces(segs) ==
    [i \in 1..Len(segs) |->
        IF Len(segs[i]) > 0 /\ \A k \in 1..Len(segs[i]) : segs[i][k] = " "
        THEN <<" ">> ELSE segs[i]]

\* str.replace(/(\d+)_(\d+)/g, "$1$2"), one pass
RECURSIVE MergeDigitsPass(_)
MergeDigitsPass(segs) ==
    IF Len(segs) < 2 THEN segs
    ELSE IF IsDigits(segs[1]) /\ IsDigits(segs[2])
    THEN <<segs[1] \o segs[2]>> \o MergeDigitsPass(SubSeq(segs, 3, Len(segs)))
    ELSE <<segs[1]>> \o MergeDigitsPass(Tail(segs))

\* do { ... } while (tmp > str.length)
RECURSIVE MergeDigits(_)
MergeDigits(segs) ==
    LET once == MergeDigitsPass(segs)
    IN IF Len(once) < Len(segs) THEN MergeDigits(once) ELSE once

\* .replace(/(\d+)_[\,\.]_(\d+)/g, "$1.$2")
RECURSIVE MergeDecimals(_)
MergeDecimals(segs) ==
    IF Len(segs) < 3 THEN segs
    ELSE IF IsDigits(segs[1]) /\ segs[2] \in {<<",">>, <<".">>} /\ IsDigits(segs[3])
    THEN <<segs[1] \o <<".">> \o segs[3]>> \o MergeDecimals(SubSeq(segs, 4, Len(segs)))
    ELSE <<segs[1]>> \o MergeDecimals(Tail(segs))

\* .replace(/a_b/g, out) for two one-character pieces a, b
RECURSIVE ReplacePair(_, _, _, _)
ReplacePair(segs, a, b, out) ==
    IF Len(segs) < 2 THEN segs
    ELSE IF segs[1] = <<a>> /\ segs[2] = <<b>>
    THEN <<out>> \o ReplacePair(SubSeq(segs, 3, Len(segs)), a, b, out)
    ELSE <<segs[1]>> \o ReplacePair(Tail(segs), a, b, out)

\* String(Math.PI)
PiText == <<"3", ".", "1", "4", "1", "5", "9", "2", "6", "5", "3", "5", "8", "9",
            "7", "9", "3">>

\* .replace(/[ij]/g, "j"), and the glyph of line 519 (written "pi" here)
ReplaceChars(segs) ==
    [i \in 1..Len(segs) |->
        [k \in 1..Len(segs[i]) |-> IF segs[i][k] \in {"i", "j"} THEN "j" ELSE segs[i][k]]]

ReplacePiGlyph(segs) ==
    [i \in 1..Len(segs) |-> IF segs[i] = <<"pi">> THEN PiText ELSE segs[i]]

ExpToken == <<"e", "x", "p">>

LnToken == <<"l", "n">>

\* .replace(/e_((x_p)|(\^))/g, "exp")
RECURSIVE ReplaceExp(_)
ReplaceExp(segs) ==
    IF Len(segs) < 2 THEN segs
    ELSE IF Len(segs) >= 3 /\ segs[1] = <<"e">> /\ segs[2] = <<"x">> /\ segs[3] = <<"p">>
    THEN <<ExpToken>> \o ReplaceExp(SubSeq(segs, 4, Len(segs)))
    ELSE IF segs[1] = <<"e">> /\ segs[2] = <<"^">>
    THEN <<ExpToken>> \o ReplaceExp(SubSeq(segs, 3, Len(segs)))
    ELSE <<segs[1]>> \o ReplaceExp(Tail(segs))

\* .replace(/l_((o_g)|(n))/g, "ln")
RECURSIVE ReplaceLn(_)
ReplaceLn(segs) ==
    IF Len(segs) < 2 THEN segs
    ELSE IF Len(segs) >= 3 /\ segs[1] = <<"l">> /\ segs[2] = <<"o">> /\ segs[3] = <<"g">>
    THEN <<LnToken>> \o ReplaceLn(SubSeq(segs, 4, Len(segs)))
    ELSE IF segs[1] = <<"l">> /\ segs[2] = <<"n">>
    THEN <<LnToken>> \o ReplaceLn(SubSeq(segs, 3, Len(segs)))
    ELSE <<segs[1]>> \o ReplaceLn(Tail(segs))

\* The token sequence eval hands to eval__read_bracket_contents.
Tokens(num) ==
    LET s0 == MergeDigits(CollapseSpaces(SplitJoin(trim(num))))
        s1 == MergeDecimals(s0)
        s2 == ReplacePair(s1, "*", "*", <<"^">>)
        s3 == ReplacePiGlyph(s2)
        s4 == ReplacePair(s3, "p", "i", PiText)
        s5 == ReplaceChars(s4)
        s6 == ReplacePair(s5, "-", "+", <<"-">>)
        s7 == ReplacePair(s6, "+", "-", <<"-">>)
        s8 == ReplacePair(s7, "+", "+", <<"+">>)
        s9 == ReplacePair(s8, "-", "-", <<"+">>)
    IN SelectSeq(ReplaceLn(ReplaceExp(s9)), LAMBDA a : a # <<>>)

\* ------------------------------------------------------------ the parser
\* The five parse functions run on a call stack.  A frame holds the function,
\* the place in it where it waits for its callee, its local (left, c, num, L)
\* and the tokens at its call.  A step runs the function on top of the stack
\* from that place to its next call, its return or its throw.
NoVal == Cx(Zero, Zero)

Call(pc, left, callee, rest) ==
    [kind |-> "call", pc |-> pc, left |-> left, callee |-> callee, parts |-> rest,
     val |-> NoVal, err |-> "", ins |-> 0]

\* A call after parts.unshift of ins tokens.
CallAfterUnshift(pc, left, callee, rest, ins) ==
    [Call(pc, left, callee, rest) EXCEPT !.ins = ins]

Throw(err, rest) ==
    [kind |-> "throw", pc |-> "", left |-> NoVal, callee |-> "", parts |-> rest,
     val |-> NoVal, err |-> err, ins |-> 0]

\* return val, or the exception the computation of val threw
Return(val, rest) ==
    IF Failed(val) THEN Throw(val.err, rest)
    ELSE [kind |-> "return", pc |-> "", left |-> NoVal, callee |-> "", parts |-> rest,
          val |-> val, err |-> "", ins |-> 0]

\* parts[0], <<>> standing for undefined
First(parts) == IF parts = <<>> THEN <<>> ELSE Head(parts)

\* parts.shift(), which leaves an empty array empty
Shift(parts) == IF parts = <<>> THEN <<>> ELSE Tail(parts)

RECURSIVE SkipSpaces(_)
SkipSpaces(parts) ==
    IF First(parts) = <<" ">> THEN SkipSpaces(Tail(parts)) ELSE parts

eval__part_is_end_of_expression(part) ==
    \/ part = <<"+">>
    \/ part = <<"-">>
    \/ part = <<"*">>
    \/ part = <<"/">>
    \/ part = <<"^">>
    \/ part = <<" ">>
    \/ part = <<")">>
    \/ part = <<>>

\* return c, or c times the expression that follows (lines 322-330, 343-351,
\* 353-361, 380-384)
ReturnOrMul(c, rest) ==
    IF Failed(c) THEN Throw(c.err, rest)
    ELSE IF eval__part_is_end_of_expression(First(rest)) THEN Return(c, rest)
    ELSE Call("ret_mul", c, "eval__read_expression", rest)

\* 10 ** Number(`${sign}${digits}`)
TenTo(sign, digits) ==
    IF Len(digits) > 1 \/ DigitsVal(digits) > TrackedDigits THEN Unk
    ELSE IF sign = <<"-">> THEN Rat(1, Pow10(DigitsVal(digits)))
    ELSE Rat(Pow10(DigitsVal(digits)), 1)

IsScientific(rest) ==
    /\ Len(rest) >= 3
    /\ rest[1] = <<"e">>
    /\ rest[2] \in {<<"+">>, <<"-">>}
    /\ IsDigits(rest[3])

\* The numeric branch of eval__read_expression (lines 366-385).
ReadNumber(first_n, rest) ==
    IF IsScientific(rest)
    THEN ReturnOrMul(FromReal(RMul(first_n, TenTo(rest[2], rest[3]))),
                     SubSeq(rest, 4, Len(rest)))
    ELSE ReturnOrMul(FromReal(first_n), rest)

eval__read_expression_step(f, parts, ret) ==
    IF f.pc = "start" THEN
        LET p == SkipSpaces(parts)
            first == First(p)
            rest == Shift(p)
            first_n == Number(first)
        IN IF p = <<>> THEN {Return(FromReal(One), p)}
           ELSE IF ~IsNaN(first_n) THEN {ReadNumber(first_n, rest)}
           ELSE IF first = ExpToken
           THEN {Call("ret_exp", NoVal, "eval__read_expression", rest)}
           ELSE IF first = LnToken
           THEN {Call("ret_ln", NoVal, "eval__read_expression", rest)}
           ELSE IF first = <<"e">> THEN {ReturnOrMul(FromReal(MathE), rest)}
           ELSE IF first = <<"j">>
           THEN {ReturnOrMul(Complex(NumArg(Zero), NumArg(One)), rest)}
           ELSE IF first = <<"(">>
           THEN {Call("after_bracket", NoVal, "eval__read_bracket_contents", rest)}
           ELSE IF first = <<"-">>
           THEN {Call("after_neg", NoVal, "eval__read_expression", rest)}
           ELSE {Throw("InvalidExpression", rest)}
    ELSE IF f.pc = "ret_exp" THEN {Return(exp(<<ret>>), parts)}
    ELSE IF f.pc = "ret_ln" THEN {Return(log(<<ret>>), parts)}
    ELSE IF f.pc = "ret_mul" THEN {Return(mul(<<f.left, ret>>), parts)}
    ELSE IF f.pc = "after_bracket" THEN {ReturnOrMul(ret, parts)}
    ELSE {ReturnOrMul(mul(<<ret, FromReal(Int2R(-1))>>), parts)}

eval__read_exponentiation_step(f, parts, ret) ==
    IF f.pc = "start" THEN {Call("after_left", NoVal, "eval__read_expression", parts)}
    ELSE IF f.pc = "after_left" THEN
        LET p == SkipSpaces(parts)
        IN IF First(p) = <<"^">>
           THEN {Call("ret_pow", ret, "eval__read_exponentiation", Tail(p))}
           ELSE {Return(ret, p)}
    ELSE {Return(pow(f.left, ret), parts)}

\* parts.unshift("(", niceround(L.real), "+", niceround(L.imag), ")")
ProductTokens(L) == <<<<"(">>, niceround(L.real), <<"+">>, niceround(L.imag), <<")">>>>

\* left.div(divisor): with an untracked divisor the denominator may be zero
Quotients(left, divisor) ==
    {div(left, <<divisor>>)}
    \cup (IF /\ ~IsRat(divisor.real) \/ ~IsRat(divisor.imag)
             /\ ~Truthy(divisor.real) \/ ~IsRat(divisor.real)
             /\ ~Truthy(divisor.imag) \/ ~IsRat(divisor.imag)
          THEN {Thrown("DivisionError")} ELSE {})

\* The branches of eval__read_multiplication after its first term (lines 407-430).
AfterLeftOfMultiplication(left, p) ==
    IF First(p) = <<"*">>
    THEN Call("ret_mul", left, "eval__read_multiplication", Tail(p))
    ELSE IF First(p) = <<"/">>
    THEN Call("after_divisor", left, "eval__read_exponentiation", Tail(p))
    ELSE IF ~eval__part_is_end_of_expression(First(p))
    THEN Call("after_implicit", left, "eval__read_expression", p)
    ELSE Return(left, p)

eval__read_multiplication_step(f, parts, ret) ==
    IF f.pc = "start"
    THEN {Call("after_left", NoVal, "eval__read_exponentiation", parts)}
    ELSE IF f.pc = "after_left" THEN {AfterLeftOfMultiplication(ret, SkipSpaces(parts))}
    ELSE IF f.pc = "ret_mul" THEN {Return(mul(<<f.left, ret>>), parts)}
    ELSE IF f.pc = "after_divisor" THEN
        {IF Failed(q) THEN Throw(q.err, parts)
         ELSE Call("ret_mul", q, "eval__read_multiplication", parts)
            : q \in Quotients(f.left, ret)}
    ELSE IF f.pc = "after_implicit" THEN
        LET L == mul(<<f.left, ret>>)
        IN IF Failed(L) THEN {Throw(L.err, parts)}
           ELSE {CallAfterUnshift("ret_pass", NoVal, "eval__read_multiplication",
                                  ProductTokens(L) \o parts, 5)}
    ELSE {Return(ret, parts)}

\* The same with the left term put back in front of a "-" that is not consumed.
AfterLeftOfAdditionKeepsMinus(left, p) ==
    IF First(p) = <<"+">> THEN Call("ret_add", left, "eval__read_addition", Tail(p))
    ELSE IF First(p) = <<"-">>
    THEN CallAfterUnshift("ret_pass", NoVal, "eval__read_addition",
                          <<toString(left)>> \o p, 1)
    ELSE Return(left, p)

\* The branches of eval__read_addition after its first term (lines 452-474).
AfterLeftOfAddition(left, p) ==
    IF First(p) = <<"+">> THEN Call("ret_add", left, "eval__read_addition", Tail(p))
    ELSE IF First(p) = <<"-">>
    THEN Call("after_right", left, "eval__read_multiplication", Tail(p))
    ELSE Return(left, p)

eval__read_addition_step(f, parts, ret) ==
    IF f.pc = "start" THEN
        LET p == SkipSpaces(parts)
        IN IF First(p) = <<"+">>
           THEN {Call("ret_pass", NoVal, "eval__read_addition", Tail(p))}
           ELSE IF First(p) = <<"-">>
           THEN {Call("ret_neg", NoVal, "eval__read_addition", Tail(p))}
           ELSE {Call("after_left", NoVal, "eval__read_multiplication", p)}
    ELSE IF f.pc = "ret_pass" THEN {Return(ret, parts)}
    ELSE IF f.pc = "ret_neg" THEN {Return(sub(FromReal(Zero), <<ret>>), parts)}
    ELSE IF f.pc = "after_left" THEN {AfterLeftOfAddition(ret, SkipSpaces(parts))}
    ELSE IF f.pc = "ret_add" THEN {Return(add(<<f.left, ret>>), parts)}
    ELSE \* after_right
        IF First(parts) \in {<<"+">>, <<"-">>}
        THEN {CallAfterUnshift("ret_pass", NoVal, "eval__read_addition",
                               <<text>> \o parts, 1)
                 : text \in toStrings(sub(f.left, <<ret>>))}
        ELSE {Return(sub(f.left, <<ret>>), parts)}

RECURSIVE SkipSpacesAndPlus(_)
SkipSpacesAndPlus(parts) ==
    IF First(parts) \in {<<" ">>, <<"+">>} THEN SkipSpacesAndPlus(Tail(parts)) ELSE parts

\* if (parts[0] === "-") parts.unshift("0")
ZeroBeforeMinus(p) == IF First(p) = <<"-">> THEN <<<<"0">>>> \o p ELSE p

\* The end of eval__read_bracket_contents (lines 492-500).
CloseBracket(contents, parts) ==
    IF First(parts) = <<")">> \/ parts = <<>>
    THEN Return(contents, Shift(parts))
    ELSE Throw("InvalidExpression", parts)

eval__read_bracket_contents_step(f, parts, ret) ==
    IF f.pc = "start" THEN
        LET p == SkipSpacesAndPlus(parts)
        IN IF p = <<>> \/ First(p) = <<")">> THEN {Return(FromReal(One), p)}
           ELSE {CallAfterUnshift("after_add", NoVal, "eval__read_addition",
                                  ZeroBeforeMinus(p), Len(ZeroBeforeMinus(p)) - Len(p))}
    ELSE {CloseBracket(ret, parts)}

\* ------------------------------------------------------------------ state
VARIABLES
    args,      \* the arguments of the call of new Complex or Complex.div
    obj,       \* the Complex constructed, or returned by div or eval
    input,     \* the string handed to Complex.eval
    status,    \* "idle", then "constructed", "running", "done" or "error"
    error,     \* the exception that ended the call, "" if none
    parts,     \* the token sequence the parse functions share
    stack,     \* the frames of the parse functions being run, innermost last
    ret,       \* the value the last parse function returned
    returned,  \* history: the last return of a parse function (function, tokens
               \* at its call, tokens it left)
    injected,  \* history: how many tokens at the front of parts were unshifted
    inserts,   \* history: unshifts made by the multiplication and addition levels
    lastOrig   \* history: input tokens left unconsumed at the last such unshift

vars == <<args, obj, input, status, error, parts, stack, ret, returned, injected,
          inserts, lastOrig>>

NoArgs == [first |-> Undefined, second |-> Undefined, Rvalues |-> <<>>]

NoReturn == [fn |-> "", entry |-> <<>>, rest |-> <<>>]

Frame(fn, pc, left, entry) == [fn |-> fn, pc |-> pc, left |-> left, entry |-> entry]

Top == stack[Len(stack)]

Max(a, b) == IF a > b THEN a ELSE b

\* Input tokens not yet consumed.
Orig == Len(parts) - injected

\* The effect of one step of the function on top of the stack.
Apply(o) ==
    LET consumed == Len(parts) + o.ins - Len(o.parts)
        caller == SubSeq(stack, 1, Len(stack) - 1)
        counted == o.ins > 0 /\ Top.fn # "eval__read_bracket_contents"
    IN /\ parts' = o.parts
       /\ injected' = Max(0, injected - consumed) + o.ins
       /\ inserts' = IF counted THEN inserts + 1 ELSE inserts
       /\ lastOrig' = IF counted THEN Len(parts') - injected' ELSE lastOrig
       /\ UNCHANGED <<args, input>>
       /\ IF o.kind = "call" THEN
              /\ stack' = Append(caller, Frame(Top.fn, o.pc, o.left, Top.entry))
                              \o <<Frame(o.callee, "start", NoVal, o.parts)>>
              /\ UNCHANGED <<ret, status, error, obj, returned>>
          ELSE IF o.kind = "return" THEN
              /\ stack' = caller
              /\ ret' = o.val
              /\ returned' = [fn |-> Top.fn, entry |-> Top.entry, rest |-> o.parts]
              /\ status' = IF caller = <<>> THEN "done" ELSE status
              /\ obj' = IF caller = <<>> THEN o.val ELSE obj
              /\ UNCHANGED error
          ELSE
              /\ stack' = <<>>
              /\ status' = "error"
              /\ error' = o.err
              /\ UNCHANGED <<ret, obj, returned>>

Running(fn) == status = "running" /\ stack # <<>> /\ Top.fn = fn

\* ---------------------------------------------------------------- actions
\* Complex.eval(num): normalize, then parse the tokens as bracket contents.
eval(num) ==
    /\ input' = num
    /\ parts' = Tokens(num)
    /\ stack' = <<Frame("eval__read_bracket_contents", "start", NoVal, parts')>>
    /\ status' = "running"
    /\ injected' = 0
    /\ inserts' = 0
    /\ lastOrig' = Len(parts')
    /\ UNCHANGED <<args, obj, error, ret, returned>>

eval__read_expression ==
    /\ Running("eval__read_expression")
    /\ \E o \in eval__read_expression_step(Top, parts, ret) : Apply(o)

eval__read_exponentiation ==
    /\ Running("eval__read_exponentiation")
    /\ \E o \in eval__read_exponentiation_step(Top, parts, ret) : Apply(o)

eval__read_multiplication ==
    /\ Running("eval__read_multiplication")
    /\ \E o \in eval__read_multiplication_step(Top, parts, ret) : Apply(o)

eval__read_addition ==
    /\ Running("eval__read_addition")
    /\ \E o \in eval__read_addition_step(Top, parts, ret) : Apply(o)

eval__read_bracket_contents ==
    /\ Running("eval__read_bracket_contents")
    /\ \E o \in eval__read_bracket_contents_step(Top, parts, ret) : Apply(o)

\* new Complex(first, second)
constructor(first, second) ==
    /\ args' = [NoArgs EXCEPT !.first = first, !.second = second]
    /\ LET c == Complex(first, second)
       IN /\ obj' = c
          /\ error' = c.err
          /\ status' = IF Failed(c) THEN "error" ELSE "constructed"
    /\ UNCHANGED <<input, parts, stack, ret, returned, injected, inserts, lastOrig>>

\* Complex.div(Lvalue, ...Rvalues)
divide(Lvalue, Rvalues) ==
    /\ args' = [NoArgs EXCEPT !.first = ObjArg(Lvalue), !.Rvalues = Rvalues]
    /\ LET c == div(Lvalue, Rvalues)
       IN /\ obj' = c
          /\ error' = c.err
          /\ status' = IF Failed(c) THEN "error" ELSE "done"
    /\ UNCHANGED <<input, parts, stack, ret, returned, injected, inserts, lastOrig>>

Parse ==
    \/ eval__read_bracket_contents
    \/ eval__read_addition
    \/ eval__read_multiplication
    \/ eval__read_exponentiation
    \/ eval__read_expression

\* ------------------------------------------------------------------ inputs
\* Longest input string of the exhaustive part of the inputs of eval.
MaxLen == 3
\* The same, for the inputs termination is checked on.
MaxShort == 2
\* Largest magnitude of the integer parts of a constructed Complex.
MaxInt == 12
\* Largest magnitude of a part of an argument of new Complex.
MaxPart == 2
\* Most divisors of one call of Complex.div.
MaxArgs == 2

Alphabet == {"0", "1", "2", "j", "e", "+", "-", "*", "/", "^", "(", ")", " "}

Strings(n) == UNION {[1..k -> Alphabet] : k \in 0..n}

\* Longer inputs: chains of two or three operands, and the examples of the
\* documentation.
Literals == {<<"1">>, <<"2">>, <<"3">>}

Operands == Literals \cup {<<"j">>, <<"(", "1", "+", "j", ")">>}

Operators == {<<"+">>, <<"-">>, <<"*">>, <<"/">>, <<"^">>, <<" ">>}

Chains ==
    {a \o o1 \o b : a \in Operands, b \in Operands, o1 \in Operators}
    \cup {a \o o1 \o b \o o2 \o c :
              a \in Operands, b \in Operands, c \in Operands,
              o1 \in Operators, o2 \in Operators}

Examples == {
    <<"3", "+", "4", "j">>,
    <<"2", "*", "(", "3", "+", "j", ")">>,
    <<"j", "^", "2">>,
    <<"-", "3", "-", "4", "j">>,
    <<"1", "e", "+", "3">>,
    <<"2", "e", "^", "(", "j", "pi", "/", "2", ")">>,
    <<"(", "1", "+", "2", "j", ")", "*", "(", "3", "-", "j", ")">>,
    <<"3", "(", "4", ")">>,
    <<"(", "1", "+", "2">>,
    <<"1", ")", "2">>,
    <<"l", "n", "(", "1", ")">>,
    <<"L", "o", "g", " ", "1", ",", "5">>,
    <<"E", "x", "p", "(", "0", ")">>,
    <<"2", "*", "*", "3">>,
    <<"p", "i", "I">>,
    <<"5", "-", "1", "/", "2", "-", "3", "-", "4">>,
    <<"1", "2", ".", "5", "+", "-", "1", "0", "j", "\n">>}

Inputs == Strings(MaxLen) \cup Chains \cup Examples

ShortInputs == Strings(MaxShort) \cup Chains \cup Examples

\* Nothing called yet.
Init ==
    /\ status = "idle"
    /\ args = NoArgs
    /\ input = <<>>
    /\ obj = NoVal
    /\ error = ""
    /\ parts = <<>>
    /\ stack = <<>>
    /\ ret = NoVal
    /\ returned = NoReturn
    /\ injected = 0
    /\ inserts = 0
    /\ lastOrig = 0

\* Complex.eval on a string.
EvalInput == status = "idle" /\ \E num \in Inputs : eval(num)

Next == EvalInput \/ Parse

Spec == Init /\ [][Next]_vars

\* The same on the shorter inputs.
EvalShortInput == status = "idle" /\ \E num \in ShortInputs : eval(num)

NextShort == EvalShortInput \/ Parse

\* eval runs synchronously: a call once made keeps taking steps until it returns
\* or throws.  This is WF_vars(Parse) with ENABLED <<Parse>>_vars written out as
\* status = "running": a running call has a frame on its stack, every step
\* function yields an outcome for every frame, and every outcome changes the
\* stack or the status.
RunsOn == <>[](status # "running") \/ []<><<Parse>>_vars

FairSpec == Init /\ [][NextShort]_vars /\ RunsOn

\* Complex.eval(new Complex(a, b).toString()) for integers a, b.
IntArgs == {NumArg(Int2R(a)) : a \in (0 - MaxInt)..MaxInt}

NewFromIntegers == status = "idle" /\ \E a \in IntArgs, b \in IntArgs : constructor(a, b)

EvalToString == status = "constructed" /\ eval(toString(obj))

NextRoundTrip == NewFromIntegers \/ EvalToString \/ Parse

SpecRoundTrip == Init /\ [][NextRoundTrip]_vars

\* new Complex(first, second) on numbers, Complex objects and missing arguments.
PartValues == {Int2R(a) : a \in (0 - MaxPart)..MaxPart}

UnitValues == {Cx(Int2R(a), Int2R(b)) : a \in -1..1, b \in -1..1}

ArgValues == {Undefined} \cup {NumArg(r) : r \in PartValues}
                 \cup {ObjArg(c) : c \in UnitValues}

NextConstructor ==
    status = "idle" /\ \E first \in ArgValues, second \in ArgValues : constructor(first, second)

SpecConstructor == Init /\ [][NextConstructor]_vars

\* Complex.div(Lvalue, ...Rvalues), and eval of a quotient of two digits.
DivisorLists == UNION {[1..k -> UnitValues] : k \in 1..MaxArgs}

Quotients2 == {<<a, "/", b>> : a \in {"0", "1", "2"}, b \in {"0", "1", "2"}}

DivideUnits ==
    status = "idle" /\ \E Lvalue \in UnitValues, Rvalues \in DivisorLists : divide(Lvalue, Rvalues)

EvalQuotient == status = "idle" /\ \E num \in Quotients2 : eval(num)

NextDivision == DivideUnits \/ EvalQuotient \/ Parse

SpecDivision == Init /\ [][NextDivision]_vars

\* ------------------------------------------------------------------ claims
Finished == status \in {"done", "error"}

Value(operand) ==
    IF operand = <<"j">> THEN Cx(Zero, One)
    ELSE IF operand = <<"(", "1", "+", "j", ")">> THEN Cx(One, One)
    ELSE Cx(Number(operand), Zero)

RECURSIVE Unclosed(_, _)
Unclosed(tokens, depth) ==
    IF tokens = <<>> THEN depth
    ELSE IF Head(tokens) = <<"(">> THEN Unclosed(Tail(tokens), depth + 1)
    ELSE IF Head(tokens) = <<")">> /\ depth > 0 THEN Unclosed(Tail(tokens), depth - 1)
    ELSE Unclosed(Tail(tokens), depth)

\* C1: eval fails, and returns no value, on every input with a "(" that no ")"
\* closes.
C1_UnbalancedFails == Unclosed(Tokens(input), 0) > 0 => status # "done"

\* eval("(") returns 1.
C1_Witness == input = <<"(">> /\ status = "done" /\ obj = Cx(One, Zero)

\* C2: eval never returns a value while tokens remain unconsumed.
C2_NoTokensLeft == status = "done" => parts = <<>>

\* eval("1)2") returns 1 and leaves the token 2.
C2_Witness ==
    /\ input = <<"1", ")", "2">>
    /\ status = "done"
    /\ obj = Cx(One, Zero)
    /\ parts = <<<<"2">>>>

\* C3: for non-zero numeric literals a, b, c both a/b*c and a/b/c evaluate, and
\* to (a/b)*c.
C3_QuotientTimesRest ==
    \A a \in Literals, b \in Literals, c \in Literals, o \in {"*", "/"} :
        (Finished /\ input = a \o <<"/">> \o b \o <<o>> \o c)
        => /\ status = "done"
           /\ obj = mul(<<div(Value(a), <<Value(b)>>), Value(c)>>)

\* eval("1/2*3") throws.
C3_Witness ==
    /\ input = <<"1", "/", "2", "*", "3">>
    /\ status = "error"
    /\ error = "InvalidExpression"

\* C4: x - y - z evaluates to (x-y)-z and x - y + z to (x-y)+z, for complex
\* operands too.
C4_ChainsLeftToRight ==
    \A x \in Operands, y \in Operands, z \in Operands :
        /\ (Finished /\ input = x \o <<"-">> \o y \o <<"-">> \o z)
           => /\ status = "done"
              /\ obj = sub(sub(Value(x), <<Value(y)>>), <<Value(z)>>)
        /\ (Finished /\ input = x \o <<"-">> \o y \o <<"+">> \o z)
           => /\ status = "done"
              /\ obj = add(<<sub(Value(x), <<Value(y)>>), Value(z)>>)

\* eval("j-1-1") throws on the re-inserted token -1+1j.
C4_Witness ==
    /\ input = <<"j", "-", "1", "-", "1">>
    /\ status = "error"
    /\ error = "InvalidExpression"
    /\ parts = <<<<"-">>, <<"1">>>>

\* C5: two terms a and b separated by a space evaluate to the complex product
\* a * b (the multiplication level's implicit multiplication).
C5_ImplicitProduct ==
    \A a \in Operands, b \in Operands :
        (Finished /\ input = a \o <<" ">> \o b)
        => /\ status = "done"
           /\ obj = mul(<<Value(a), Value(b)>>)

\* eval("2 j") returns 2.
C5_Witness ==
    /\ input = <<"2", " ", "j">>
    /\ status = "done"
    /\ obj = Cx(Int2R(2), Zero)
    /\ inserts = 1

\* C6: for integers a, b the evaluation of new Complex(a, b).toString() does not
\* fail and returns real = a, imag = b.
C6_RoundTrip ==
    /\ status # "error"
    /\ status = "done" => obj = Cx(args.first.v, args.second.v)

C6_Witness ==
    /\ status = "done"
    /\ args.first.v.n < -9
    /\ args.second.v.n < 0
    /\ Len(input) >= 6

\* The second argument s of new Complex(first, s) and the fields before it is
\* folded in.
SecondArg == Fields(args.second)

FirstArg == Fields(args.first)

NonZeroSecond ==
    /\ status = "constructed"
    /\ ArgTruthy(args.second)
    /\ SecondArg.real # Zero \/ SecondArg.imag # Zero

PurelyImaginary == SecondArg.real = Zero /\ SecondArg.imag # Zero

\* C7 as stated: a purely imaginary s adds s.imag to imag; any other non-zero s
\* has its real part subtracted from real and its imaginary part added to imag.
C7_AsStated ==
    NonZeroSecond =>
        obj = IF PurelyImaginary
              THEN Cx(FirstArg.real, RAdd(FirstArg.imag, SecondArg.imag))
              ELSE Cx(RSub(FirstArg.real, SecondArg.real),
                      RAdd(FirstArg.imag, SecondArg.imag))

\* C7 amended: a purely imaginary s adds s.imag to imag; any other non-zero s
\* has its imaginary part subtracted from real and its real part added to imag.
C7_Amended ==
    NonZeroSecond =>
        obj = IF PurelyImaginary
              THEN Cx(FirstArg.real, RAdd(FirstArg.imag, SecondArg.imag))
              ELSE Cx(RSub(FirstArg.real, SecondArg.imag),
                      RAdd(FirstArg.imag, SecondArg.real))

C7_Witness ==
    /\ NonZeroSecond
    /\ SecondArg.real # Zero
    /\ SecondArg.imag # Zero
    /\ FirstArg.real # Zero

ZeroDivisor(c) == c.real = Zero /\ c.imag = Zero

\* C8: div fails with a division error, and returns no value, when one of its
\* divisors is the zero complex number; so does eval of a/0.
C8_DivisionByZeroFails ==
    /\ (\E i \in 1..Len(args.Rvalues) : ZeroDivisor(args.Rvalues[i]))
       => status = "error" /\ error = "DivisionError"
    /\ (Finished /\ Len(input) = 3 /\ input[3] = "0")
       => status = "error" /\ error = "DivisionError"

C8_Witness ==
    /\ status = "error"
    /\ error = "DivisionError"
    /\ Len(args.Rvalues) = 2
    /\ ~ZeroDivisor(args.Rvalues[1])
    /\ ZeroDivisor(args.Rvalues[2])
    /\ ~ZeroDivisor(Fields(args.first))

\* The tokens a parse function consumed, spaces left out.
Consumed(r) ==
    SelectSeq(SubSeq(r.entry, 1, Len(r.entry) - Len(r.rest)), LAMBDA t : t # <<" ">>)

Depth(tokens, i) ==
    Cardinality({k \in 1..(i - 1) : tokens[k] = <<"(">>})
    - Cardinality({k \in 1..(i - 1) : tokens[k] = <<")">>})

EndsOperand(t) == ~IsNaN(Number(t)) \/ t \in {<<"j">>, <<"e">>, <<")">>}

\* The sign of the exponent of a literal such as 1e+3.
ExponentSignAt(tokens, i) ==
    /\ i >= 3
    /\ i < Len(tokens)
    /\ tokens[i - 1] = <<"e">>
    /\ ~IsNaN(Number(tokens[i - 2]))
    /\ IsDigits(tokens[i + 1])

\* A "+" or "-" outside brackets that follows a complete operand: an operator
\* of the addition level.
AdditionOperatorAt(tokens, i) ==
    /\ tokens[i] \in {<<"+">>, <<"-">>}
    /\ i > 1
    /\ EndsOperand(tokens[i - 1])
    /\ Depth(tokens, i) = 0
    /\ ~ExponentSignAt(tokens, i)

UnmatchedCloseAt(tokens, i) == tokens[i] = <<")">> /\ Depth(tokens, i) <= 0

\* C9: a multiplication-level parse that returns has consumed no "+" or "-" of
\* the addition level and no ")" of an enclosing bracket.
C9_MultiplicationStopsAtItsLevel ==
    returned.fn = "eval__read_multiplication" =>
        \A i \in 1..Len(Consumed(returned)) :
            /\ ~AdditionOperatorAt(Consumed(returned), i)
            /\ ~UnmatchedCloseAt(Consumed(returned), i)

\* In eval("1/2-3") the multiplication level consumes all five tokens.
C9_Witness ==
    /\ input = <<"1", "/", "2", "-", "3">>
    /\ returned.fn = "eval__read_multiplication"
    /\ returned.entry = Tokens(input)
    /\ returned.rest = <<>>
    /\ ret = Cx(Rat(-3, 2), Zero)

\* C10: eval terminates, and every re-insertion of tokens by the multiplication
\* or the addition level leaves fewer input tokens unconsumed than the one before
\* (than the whole input, for the first).
C10_Terminates ==
    /\ (status = "running") ~> Finished
    /\ [][inserts' # inserts => Len(parts') - injected' < lastOrig]_vars

C10_Witness == status = "done" /\ inserts >= 2 /\ Len(Tokens(input)) >= 5

====
